---- MODULE Spec2Model ----
(***************************************************************************)
(* Model of mesa_solps/simulation.py: the SOLPS case builder               *)
(* (build_solps_case), the launcher (Solps.launch) and the run handle      *)
(* (SolpsRun.status / cleanup / get_results / cancel), together with the   *)
(* batch scheduler, the clock and the filesystem they act on.              *)
(*                                                                         *)
(* Text is modelled as a sequence of one-character strings, so Python's    *)
(* substring test, str.find and slicing are computed as Python computes    *)
(* them.  File contents are sequences of tokens; the token "\n" ends a     *)
(* line and a placeholder such as "{X}" is one token.                      *)
(***************************************************************************)
EXTENDS Integers, Sequences, FiniteSets, TLC

VARIABLES
    ref,        \* the reference directory: file name -> content
    fs,         \* the case directories: run number -> [exists, files]
    queue,      \* the ids of the jobs the scheduler lists for the user
    submitted,  \* the job ids the scheduler has handed out: run number -> ids
                \* (0: jobs of the user that no launch of this process made)
    runs,       \* the run handles returned by launch: run number -> record
    now,        \* the wall clock, in ticks of TickSeconds
    cwd,        \* the process's current working directory
    last,       \* the last operation: which one, on what, and its outcome
    seen        \* per handle, the first terminal status that a status() call
                \* returned which read its own job's presence off the listing

vars == <<ref, fs, queue, submitted, runs, now, cwd, last, seen>>

----------------------------------------------------------------------------
(* Bounds of the model.                                                    *)

MaxRuns == 1
MaxTicks == 2
TickSeconds == 86400

MaxCases == 1

RunNumbers == 1..MaxRuns

\* The case directories of the case-builder specification.
CaseNumbers == 1..MaxCases

----------------------------------------------------------------------------
(* Python text primitives.                                                 *)

\* `sub in s` for str: sub occurs as a contiguous substring of s.
Contains(sub, s) ==
    \E i \in 0..(Len(s) - Len(sub)) : SubSeq(s, i + 1, i + Len(sub)) = sub

\* s.find(sub): the lowest index (from 0) where sub occurs, -1 if none.
Find(s, sub) ==
    IF Contains(sub, s)
    THEN CHOOSE i \in 0..(Len(s) - Len(sub)) :
            /\ SubSeq(s, i + 1, i + Len(sub)) = sub
            /\ \A j \in 0..(i - 1) : SubSeq(s, j + 1, j + Len(sub)) # sub
    ELSE -1

\* s[a:b] for a >= 0 and b < 0, with Python's clamping of both ends.
Slice(s, a, b) ==
    LET stop == IF Len(s) + b < 0 THEN 0 ELSE Len(s) + b
        start == IF a > Len(s) THEN Len(s) ELSE a
    IN  IF start >= stop THEN << >> ELSE SubSeq(s, start + 1, stop)

RECURSIVE Flatten(_)
Flatten(ss) == IF ss = << >> THEN << >> ELSE Head(ss) \o Flatten(Tail(ss))

----------------------------------------------------------------------------
(* The scheduler's queue listing.                                          *)

\* The job ids the scheduler may hand out.
JobIds == { <<"1">>, <<"1", "2">> }

RECURSIVE QueueText(_)
\* stdout of `squeue -u <user>`: one line per listed job, the id first.
QueueText(q) ==
    IF q = {} THEN << >>
    ELSE LET j == CHOOSE k \in q : \A m \in q : Len(k) <= Len(m)
         IN  j \o <<"\n">> \o QueueText(q \ {j})

----------------------------------------------------------------------------
(* Files and directories.  A directory's files are a function from the     *)
(* names present to their contents; a content is a sequence of tokens.     *)

NoFiles == [f \in {} |-> << >>]

NoDir == [exists |-> FALSE, files |-> NoFiles]

\* The directory `files` with the file `name` created or overwritten.
Put(files, name, content) ==
    [f \in (DOMAIN files) \cup {name} |-> IF f = name THEN content ELSE files[f]]

\* The directory `files` without the files named in `names`.
Remove(files, names) == [f \in (DOMAIN files) \ names |-> files[f]]

Range(s) == { s[i] : i \in DOMAIN s }

\* The lines of a text as Python's file iteration yields them: each keeps
\* its terminating "\n"; a last line without one is yielded as it is.
RECURSIVE Lines(_)
Lines(t) ==
    IF t = << >> THEN << >>
    ELSE LET ends == { i \in 1..Len(t) : t[i] = "\n" }
             k == IF ends = {} THEN Len(t)
                  ELSE CHOOSE i \in ends : \A j \in ends : i <= j
         IN  <<SubSeq(t, 1, k)>> \o Lines(SubSeq(t, k + 1, Len(t)))

\* str.replace(old, new) on a line, old being one token.
Replace(line, old, new) == [i \in DOMAIN line |-> IF line[i] = old THEN new ELSE line[i]]

----------------------------------------------------------------------------
(* build_solps_case                                                        *)

input_files ==
    << "input.dat", "fort.1", "fort.13", "b2.neutrals.parameters",
       "b2.boundary.parameters", "b2.numerics.parameters",
       "b2.transport.parameters", "b2mn.dat" >>

\* f + ".mesa"
MesaName(f) ==
    CASE f = "input.dat" -> "input.dat.mesa"
      [] f = "fort.1" -> "fort.1.mesa"
      [] f = "fort.13" -> "fort.13.mesa"
      [] f = "b2.neutrals.parameters" -> "b2.neutrals.parameters.mesa"
      [] f = "b2.boundary.parameters" -> "b2.boundary.parameters.mesa"
      [] f = "b2.numerics.parameters" -> "b2.numerics.parameters.mesa"
      [] f = "b2.transport.parameters" -> "b2.transport.parameters.mesa"
      [] f = "b2mn.dat" -> "b2mn.dat.mesa"

\* The profile parameter names of mesa_solps/parameters.py, one name standing
\* for each list.
conductivity_profile == <<"chi_boundary_left">>

diffusivity_profile == <<"D_boundary_left">>

required_parameters == Range(conductivity_profile) \cup Range(diffusivity_profile)

\* The optional parameter names the model draws from.
OptionalNames == {"X", "Y"}

\* '{' + p + '}'
Placeholder(p) == IF p = "X" THEN "{X}" ELSE "{Y}"

\* parameter_dictionary[p], as the text a formatted value would be.
ValString(p) == IF p = "X" THEN "vX" ELSE "vY"

\* A parameter dictionary: its keys, and the Python type of the values of
\* its optional parameters ("str" or "float").
ParameterDicts ==
    [keys : { required_parameters \cup o : o \in SUBSET OptionalNames }
              \cup { Range(conductivity_profile) },
     kind : {"str", "float"}]

\* Mutant of mkdir_fails: mkdir(exist_ok=True), which never raises.
mkdir_exist_ok(d) == FALSE

\* case_directory.mkdir() raises FileExistsError when the path exists.
mkdir_fails(d) == d.exists

\* Mutant of CopyReference: the base state copied under its own name.
CopyReference_unrenamed(r) ==
    [f \in {"b2fstate"} \cup (Range(input_files) \cap DOMAIN r) |-> r[f]]

\* Lines 181-184: the base state under its restart name, and every fixed
\* input file that is present in the reference directory.
CopyReference(r) ==
    [f \in {"b2fstati"} \cup (Range(input_files) \cap DOMAIN r) |->
        IF f = "b2fstati" THEN r["b2fstate"] ELSE r[f]]

\* Lines 189-190: the template files present, in the order of input_files.
mesa_input_files(r) ==
    SelectSeq([i \in DOMAIN input_files |-> MesaName(input_files[i])],
              LAMBDA f : f \in DOMAIN r)

\* Mutant of no_templates: the check for an empty template list left out.
no_templates_unchecked(optional_params, mifs) == FALSE

\* Lines 192-193: optional parameters given and no template to put them in.
no_templates(optional_params, mifs) == optional_params # {} /\ mifs = << >>

\* Lines 208-213 for one line: the optional parameters whose placeholder the
\* line holds.  str.replace returns a new string, which line 211 drops: the
\* line appended to the output is the line as read.
LineHits(line, optional_params) ==
    { p \in optional_params : Placeholder(p) \in Range(line) }

OutputLine(line, optional_params) ==
    LET replaced == [p \in optional_params |-> Replace(line, Placeholder(p), ValString(p))]
    IN  line

\* Line 211 with a value that is not a str: str.replace raises TypeError.
ReplaceRaises(line, optional_params, kind) ==
    kind # "str" /\ LineHits(line, optional_params) # {}

\* Lines 215-217: every item of output followed by "\n".
WriteLines(output) == Flatten([i \in DOMAIN output |-> output[i] \o <<"\n">>])

RECURSIVE ProcessTemplates(_, _, _, _, _, _)
\* Lines 204-217: the templates one after the other.  A TypeError leaves the
\* template it occurs in unwritten and the later ones unread.
ProcessTemplates(mifs, files, written, r, optional_params, kind) ==
    IF mifs = << >> THEN [files |-> files, written |-> written, err |-> "none"]
    ELSE LET mif == Head(mifs)
             lines == Lines(r[mif])
             raises == \E i \in DOMAIN lines : ReplaceRaises(lines[i], optional_params, kind)
             output == [i \in DOMAIN lines |-> OutputLine(lines[i], optional_params)]
             hits == UNION { LineHits(lines[i], optional_params) : i \in DOMAIN lines }
         IN  IF raises
             THEN [files |-> files, written |-> written, err |-> "TypeError"]
             ELSE ProcessTemplates(Tail(mifs), Put(files, mif, WriteLines(output)),
                                   written \cup hits, r, optional_params, kind)

\* build_solps_case(reference_directory = r, case_directory = d,
\* parameter_dictionary = pd): the case directory afterwards, the error
\* raised ("none" on return) and the parameter names the error message lists.
BuildCase(r, d, pd) ==
    IF mkdir_fails(d)
    THEN [dir |-> d, err |-> "FileExistsError", names |-> {}]
    ELSE IF "b2fstate" \notin DOMAIN r
    THEN [dir |-> [exists |-> TRUE, files |-> NoFiles],
          err |-> "FileNotFoundError(b2fstate)", names |-> {}]
    ELSE
    LET copied == CopyReference(r)
        optional_params == pd.keys \ required_parameters
        mifs == mesa_input_files(r)
        done == ProcessTemplates(mifs, copied, {}, r, optional_params, pd.kind)
        unwritten_params == optional_params \ done.written
    IN  IF optional_params = {}
        THEN [dir |-> [exists |-> TRUE, files |-> copied], err |-> "none", names |-> {}]
        ELSE IF no_templates(optional_params, mifs)
        THEN [dir |-> [exists |-> TRUE, files |-> copied],
              err |-> "FileNotFoundError(no .mesa)", names |-> optional_params]
        ELSE IF done.err # "none"
        THEN [dir |-> [exists |-> TRUE, files |-> done.files],
              err |-> done.err, names |-> {}]
        ELSE IF unwritten_params # {}
        THEN [dir |-> [exists |-> TRUE, files |-> done.files],
              err |-> "ValueError", names |-> unwritten_params]
        ELSE [dir |-> [exists |-> TRUE, files |-> done.files],
              err |-> "none", names |-> {}]

----------------------------------------------------------------------------
(* Solps.launch                                                            *)

\* Solps.__init__: timeout_hours defaults to 24.
timeout_hours == 24

\* 'Submitted batch job'
findstr ==
    << "S", "u", "b", "m", "i", "t", "t", "e", "d", " ",
       "b", "a", "t", "c", "h", " ", "j", "o", "b" >>

\* str(b): the repr of a bytes object, b'...' with each newline as \n.
BytesRepr(out) ==
    <<"b", "'">>
    \o Flatten([i \in DOMAIN out |-> IF out[i] = "\n" THEN <<"\\", "n">> ELSE <<out[i]>>])
    \o <<"'">>

\* Lines 148-150: the job id read out of the submission's stdout.
ParseJobId(out) ==
    LET text == BytesRepr(out)
        tmp == Find(text, findstr)
    IN  Slice(text, tmp + Len(findstr) + 1, -3)

\* What itmsubmit may print before the scheduler's acknowledgement: nothing,
\* a line "ok", or a line that itself holds the text of the marker.
Prefixes == { << >>, <<"o", "k", "\n">>, findstr \o <<"\n">> }

\* stdout of a submission that put no job in the queue: nothing, or a
\* message without the marker ("error: queue is closed").
FailOutputs ==
    { << >>,
      << "e", "r", "r", "o", "r", ":", " ", "q", "u", "e", "u", "e", " ",
         "i", "s", " ", "c", "l", "o", "s", "e", "d", "\n" >> }

\* The outcomes of running the submission command: the scheduler accepts the
\* job under an id it has not used and acknowledges it, or no job is queued.
SubmitOutcomes(usedIds) ==
    { [job |-> {id}, out |-> pre \o findstr \o <<" ">> \o id \o <<"\n">>] :
        id \in JobIds \ usedIds, pre \in Prefixes }
    \cup { [job |-> {}, out |-> o] : o \in FailOutputs }

\* The content write_solps_transport_inputfile leaves in the file.
TransportInputfile == <<"dperp", "chieperp", "chiiperp">>

NoParameters == [keys |-> {}, kind |-> "str"]

NoRun ==
    [live |-> FALSE, run_id |-> << >>, directory |-> 0, run_number |-> 0,
     launch_time |-> 0, timeout_hours |-> 0, parameters |-> NoParameters]

\* The record of an operation, kept in `last`: the operation, the run number
\* it is about, the error raised ("none" on return), the status returned, the
\* working directory before the call, the outcome of the queue query, whether
\* the status call read its own job's presence off the listing, the parameter
\* dictionary passed, the names an error message lists, the file names a
\* cleanup removed or the file a result handle is bound to, and the job a
\* launch put in the queue.
Op(op, n, err) ==
    [op |-> op, n |-> n, err |-> err, status |-> "none", cwd0 |-> cwd,
     query |-> "none", exact |-> FALSE, pd |-> NoParameters, names |-> {},
     job |-> {}]

Faults == {"none", "shape", "write"}

\* The parameter dictionaries the lifecycle specification launches with: the
\* required parameters alone, with X, with X as a float, with X and Y, and
\* with a required parameter missing.
LaunchDicts ==
    { [keys |-> required_parameters, kind |-> "str"],
      [keys |-> required_parameters \cup {"X"}, kind |-> "str"],
      [keys |-> required_parameters \cup {"X"}, kind |-> "float"],
      [keys |-> required_parameters \cup {"X", "Y"}, kind |-> "str"],
      [keys |-> Range(conductivity_profile), kind |-> "str"] }

\* The simulations directory, as a working directory.
simulations_directory == "sims"

\* Every job id handed out so far.
UsedIds == UNION { submitted[n] : n \in DOMAIN submitted }

\* A launch that fails before the submission runs no submission.
NoSubmission == [job |-> {}, out |-> << >>]

\* The working directories: the parent of the simulations directory, the
\* simulations directory, and a case directory.
WorkingDirs == {"home", simulations_directory, "case"}

\* simulations_directory given as a relative path resolves to the
\* simulations directory only from its parent.
Resolves(rel) == ~rel \/ cwd = "home"

\* Solps.launch(run_number = n, simulations_directory, parameters = pd).
\* rel: simulations_directory is a relative path, else an absolute one;
\* fault: "shape" when the profile generator rejects the shape parameters,
\* "write" when the transport input file cannot be written, else "none";
\* sub: what the submission does.
Launch(n, pd, rel, fault, sub) ==
    LET built == BuildCase(ref, fs[n], pd)
        failed(e) ==
            /\ fs' = [fs EXCEPT ![n] = built.dir]
            /\ last' = [Op("launch", n, e) EXCEPT !.pd = pd, !.names = built.names]
            /\ UNCHANGED <<queue, submitted, runs, cwd, seen>>
        written ==
            [exists |-> TRUE,
             files |-> Put(built.dir.files, "b2.transport.inputfile",
                           TransportInputfile)]
    IN  /\ IF ~Resolves(rel)
           \* line 180: the parent of the case directory is not there
           THEN /\ last' = [Op("launch", n, "FileNotFoundError(mkdir)") EXCEPT !.pd = pd]
                /\ UNCHANGED <<fs, queue, submitted, runs, cwd, seen>>
           ELSE IF built.err # "none" THEN failed(built.err)
           ELSE IF ~(required_parameters \subseteq pd.keys) THEN failed("KeyError")
           ELSE IF fault = "shape" THEN failed("ValidationError")
           ELSE IF fault = "write" THEN failed("OSError")
           ELSE IF rel
           \* os.chdir(case_dir), the submission, and os.chdir(simulations_directory)
           \* with the relative path looked up inside the case directory
           THEN /\ fs' = [fs EXCEPT ![n] = written]
                /\ queue' = queue \cup sub.job
                /\ submitted' = [submitted EXCEPT ![n] = sub.job]
                /\ cwd' = "case"
                /\ last' = [Op("launch", n, "FileNotFoundError(chdir)") EXCEPT
                               !.pd = pd, !.job = sub.job]
                /\ UNCHANGED <<runs, seen>>
           ELSE
             /\ fs' = [fs EXCEPT ![n] = written]
             /\ queue' = queue \cup sub.job
             /\ submitted' = [submitted EXCEPT ![n] = sub.job]
             \* os.chdir(case_dir), the submission, os.chdir(simulations_directory)
             /\ cwd' = simulations_directory
             /\ runs' = [runs EXCEPT ![n] =
                           [live |-> TRUE, run_id |-> ParseJobId(sub.out),
                            directory |-> n, run_number |-> n, launch_time |-> now,
                            timeout_hours |-> timeout_hours, parameters |-> pd]]
             /\ last' = [Op("launch", n, "none") EXCEPT !.pd = pd, !.job = sub.job]
             /\ UNCHANGED seen
        /\ UNCHANGED <<ref, now>>

\* The submissions a launch with these inputs may see: those of the
\* scheduler when the launch gets as far as submitting, else none.
Submissions(n, pd, rel, fault) ==
    IF /\ Resolves(rel)
       /\ BuildCase(ref, fs[n], pd).err = "none"
       /\ required_parameters \subseteq pd.keys
       /\ fault = "none"
    THEN SubmitOutcomes(UsedIds)
    ELSE {NoSubmission}

\* build_solps_case called on its own.
Build(n, pd) ==
    LET built == BuildCase(ref, fs[n], pd)
    IN  /\ fs' = [fs EXCEPT ![n] = built.dir]
        /\ last' = [Op("build", n, built.err) EXCEPT !.pd = pd, !.names = built.names]
        /\ UNCHANGED <<ref, queue, submitted, runs, now, cwd, seen>>

----------------------------------------------------------------------------
(* SolpsRun                                                                *)

\* The outcomes of the `squeue` call of status(): it lists the queue; it
\* exits non-zero with nothing on stdout (the scheduler cannot be reached),
\* which subprocess.run without check=True lets pass; or the executable is
\* not there and subprocess.run raises FileNotFoundError.
QueryOutcomes == {"ok", "failed", "missing"}

\* squeue.stdout
JobQueue(query) == IF query = "ok" THEN QueueText(queue) ELSE << >>

\* Line 42: self.run_id not in job_queue, a substring test on str.
NotInQueue(run_id, job_queue) == ~Contains(run_id, job_queue)

\* Line 45: (time() - self.launch_time) > self.timeout_hours * 3600.
TimedOut(run, t) ==
    (t - run.launch_time) * TickSeconds > run.timeout_hours * 3600

\* Mutant of StatusOf: a handle that remembers having been polled, and
\* reports a run it has already seen running as timed out.
StatusOf_remembering(run, job_queue, dir, t) ==
    IF NotInQueue(run.run_id, job_queue)
    THEN IF dir.exists /\ "balance.nc" \in DOMAIN dir.files
         THEN "complete" ELSE "crashed"
    ELSE IF TimedOut(run, t) \/ (last.op = "status" /\ last.status = "running")
         THEN "timed-out" ELSE "running"

\* Lines 42-48.
StatusOf(run, job_queue, dir, t) ==
    IF NotInQueue(run.run_id, job_queue)
    THEN IF dir.exists /\ "balance.nc" \in DOMAIN dir.files
         THEN "complete" ELSE "crashed"
    ELSE IF TimedOut(run, t) THEN "timed-out" ELSE "running"

Terminal == {"complete", "crashed", "timed-out"}

\* SolpsRun.status() on the handle of run n.
Status(n, query) ==
    /\ runs[n].live
    /\ IF query = "missing"
       THEN /\ last' = [Op("status", n, "FileNotFoundError") EXCEPT !.query = query]
            /\ UNCHANGED seen
       ELSE LET st == StatusOf(runs[n], JobQueue(query), fs[runs[n].directory], now)
                exact == /\ query = "ok"
                         /\ submitted[n] = {runs[n].run_id}
                         /\ NotInQueue(runs[n].run_id, JobQueue(query))
                                <=> runs[n].run_id \notin queue
            IN  /\ last' = [Op("status", n, "none") EXCEPT
                               !.query = query, !.status = st, !.exact = exact]
                /\ seen' = [seen EXCEPT ![n] =
                              IF @ = "none" /\ st \in Terminal /\ exact THEN st ELSE @]
    /\ UNCHANGED <<ref, fs, queue, submitted, runs, now, cwd>>

allowed_files ==
    { "balance.nc", "input.dat", "b2.neutrals.parameters",
      "b2.boundary.parameters", "b2.numerics.parameters",
      "b2.transport.parameters", "b2.transport.inputfile", "b2mn.dat" }

\* Mutant of deletions: the allow-list filter left out.
deletions_unfiltered(files) == DOMAIN files

\* Lines 52-59: the files of the directory that are not allowed.
deletions(files) == { f \in DOMAIN files : f \notin allowed_files }

\* SolpsRun.cleanup() on the handle of run n.
Cleanup(n) ==
    /\ runs[n].live
    /\ fs' = [fs EXCEPT ![runs[n].directory].files = Remove(@, deletions(@))]
    /\ last' = [Op("cleanup", n, "none") EXCEPT
                   !.names = deletions(fs[runs[n].directory].files)]
    /\ UNCHANGED <<ref, queue, submitted, runs, now, cwd, seen>>

\* SolpsRun.get_results() on the handle of run n: a SolpsInterface built on
\* directory / "balance.nc".  get_results itself does not look at the
\* directory; SolpsInterface comes from the package `sims`, so whether its
\* constructor opens the file (opens) is left open: when it does and the
\* file is not there the call raises, else a handle on the path is returned.
GetResults(n, opens) ==
    /\ runs[n].live
    /\ last' = [Op("get_results", n,
                   IF opens /\ "balance.nc" \notin DOMAIN fs[runs[n].directory].files
                   THEN "FileNotFoundError" ELSE "none")
                EXCEPT !.names = {"balance.nc"}]
    /\ UNCHANGED <<ref, fs, queue, submitted, runs, now, cwd, seen>>

\* SolpsRun.cancel() on the handle of run n: `scancel <run_id>`, not waited
\* for.  The scheduler drops the job of exactly that id, now (gone) or later.
Cancel(n, gone) ==
    /\ runs[n].live
    /\ queue' = IF gone THEN queue \ {runs[n].run_id} ELSE queue
    /\ last' = Op("cancel", n, "none")
    /\ UNCHANGED <<ref, fs, submitted, runs, now, cwd, seen>>

----------------------------------------------------------------------------
(* The environment: the clock, the scheduler and the running simulations.  *)

Tick ==
    /\ now < MaxTicks
    /\ now' = now + 1
    /\ last' = Op("tick", 0, "none")
    /\ UNCHANGED <<ref, fs, queue, submitted, runs, cwd, seen>>

\* A job leaves the queue: it ended, crashed or was cancelled.
JobExit(j) ==
    /\ j \in queue
    /\ queue' = queue \ {j}
    /\ last' = Op("exit", 0, "none")
    /\ UNCHANGED <<ref, fs, submitted, runs, now, cwd, seen>>

\* Another job of the user, not made by a launch of this process, is queued.
OtherJob(j) ==
    /\ j \in JobIds \ UsedIds
    /\ queue' = queue \cup {j}
    /\ submitted' = [submitted EXCEPT ![0] = @ \cup {j}]
    /\ last' = Op("other", 0, "none")
    /\ UNCHANGED <<ref, fs, runs, now, cwd, seen>>

\* The files a running simulation writes in its case directory.
SimFiles == {"balance.nc"}

\* The queued job of run n writes file f.
SimWrites(n, f) ==
    /\ submitted[n] \cap queue # {}
    /\ f \in SimFiles \ DOMAIN fs[n].files
    /\ fs' = [fs EXCEPT ![n].files = Put(@, f, <<"out">>)]
    /\ last' = Op("write", n, "none")
    /\ UNCHANGED <<ref, queue, submitted, runs, now, cwd, seen>>

\* The files the cleanup specification puts in a run directory, and the
\* contents it gives them.
CleanupFiles ==
    { "balance.nc", "input.dat", "b2.transport.inputfile", "b2fstati",
      "fort.1", "run.log" }

FileContents == { <<"out">>, <<"out", "more">> }

\* File f appears in the directory of run n with content c.
FileAppears(n, f, c) ==
    /\ fs[n].exists
    /\ f \notin DOMAIN fs[n].files
    /\ fs' = [fs EXCEPT ![n].files = Put(@, f, c)]
    /\ last' = Op("write", n, "none")
    /\ UNCHANGED <<ref, queue, submitted, runs, now, cwd, seen>>

----------------------------------------------------------------------------
(* Reference directories.                                                  *)

\* Template contents: a placeholder line and a plain line; both placeholders
\* and a last line without newline; no placeholder at all.
TplX == << "a", "{X}", "\n", "b", "\n" >>

TplXY == << "{X}", "{Y}", "{X}", "\n", "{X}" >>

TplPlain == << "b", "\n" >>

Templates == { TplX, TplXY, TplPlain }

\* The content of the reference file f that is not a template.
RefContent(f) == <<f>>

\* A reference directory with the fixed files `fixed` and the templates
\* `tpl` (a function from template names to contents).
RefDir(fixed, tpl) ==
    [f \in fixed \cup DOMAIN tpl |-> IF f \in DOMAIN tpl THEN tpl[f] ELSE RefContent(f)]

\* The reference directories of the case-builder specification: with or
\* without the base state, any of two fixed input files, and for each of two
\* template names no template or one of the three contents.
BuildRefDirs ==
    { RefDir(base \cup aux, tpl) :
        base \in {{}, {"b2fstate"}},
        aux \in SUBSET {"input.dat", "fort.1"},
        tpl \in UNION { [names -> Templates] :
                          names \in SUBSET {"input.dat.mesa", "b2mn.dat.mesa"} } }

\* The reference directory of the lifecycle specification.
RunRefDirs ==
    { RefDir({"b2fstate", "input.dat", "fort.1"}, [f \in {"input.dat.mesa"} |-> TplX]) }

----------------------------------------------------------------------------
(* Specifications.                                                         *)

InitCommon ==
    /\ queue = {}
    /\ now = 0
    /\ last = [op |-> "init", n |-> 0, err |-> "none", status |-> "none",
               cwd0 |-> "home", query |-> "none", exact |-> FALSE,
               pd |-> NoParameters, names |-> {}, job |-> {}]

\* No case directory, no job and no handle over the run numbers `numbers`.
InitRuns(numbers) ==
    /\ fs = [n \in numbers |-> NoDir]
    /\ submitted = [n \in numbers \cup {0} |-> {}]
    /\ runs = [n \in numbers |-> NoRun]
    /\ seen = [n \in numbers |-> "none"]

Init ==
    /\ ref \in RunRefDirs
    /\ cwd \in WorkingDirs \ {"case"}
    /\ InitRuns(RunNumbers)
    /\ InitCommon

Next ==
    \/ \E n \in RunNumbers, pd \in LaunchDicts, rel \in BOOLEAN, fault \in Faults :
          \E sub \in Submissions(n, pd, rel, fault) : Launch(n, pd, rel, fault, sub)
    \/ \E n \in RunNumbers, query \in QueryOutcomes : Status(n, query)
    \/ \E n \in RunNumbers : Cleanup(n)
    \/ \E n \in RunNumbers, opens \in BOOLEAN : GetResults(n, opens)
    \/ \E n \in RunNumbers, gone \in BOOLEAN : Cancel(n, gone)
    \/ Tick
    \/ \E j \in JobIds : JobExit(j)
    \/ \E j \in JobIds : OtherJob(j)
    \/ \E n \in RunNumbers, f \in SimFiles : SimWrites(n, f)

Spec == Init /\ [][Next]_vars

\* The case builder on its own, over the wider set of reference directories.
InitBuild ==
    /\ ref \in BuildRefDirs
    /\ cwd = "home"
    /\ InitRuns(CaseNumbers)
    /\ InitCommon

NextBuild == \E n \in CaseNumbers, pd \in ParameterDicts : Build(n, pd)

SpecBuild == InitBuild /\ [][NextBuild]_vars

\* cleanup() on its own: one run whose job has left the queue and whose
\* directory holds any of the cleanup files, with any of the contents.
InitCleanup ==
    /\ ref \in RunRefDirs
    /\ cwd = simulations_directory
    /\ fs \in [{1} -> { [exists |-> TRUE, files |-> fl] :
                          fl \in UNION { [names -> FileContents] :
                                           names \in SUBSET CleanupFiles } }]
    /\ submitted = [n \in {0, 1} |-> IF n = 1 THEN {<<"1">>} ELSE {}]
    /\ runs = [n \in {1} |->
                 [live |-> TRUE, run_id |-> <<"1">>, directory |-> 1,
                  run_number |-> 1, launch_time |-> 0,
                  timeout_hours |-> timeout_hours,
                  parameters |-> [keys |-> required_parameters, kind |-> "str"]]]
    /\ seen = [n \in {1} |-> "none"]
    /\ InitCommon

NextCleanup ==
    \/ \E n \in {1} : Cleanup(n)
    \/ \E n \in {1}, f \in CleanupFiles, c \in FileContents : FileAppears(n, f, c)

SpecCleanup == InitCleanup /\ [][NextCleanup]_vars

\* The run handle on its own, from the state a launch leaves: run 1 built
\* from the required parameters, its transport input file written, its job
\* queued under the id the scheduler acknowledged.
InitHandle ==
    /\ ref \in RunRefDirs
    /\ cwd = simulations_directory
    /\ fs = [n \in {1} |->
               [exists |-> TRUE,
                files |-> Put(CopyReference(ref), "b2.transport.inputfile",
                              TransportInputfile)]]
    /\ \E id \in JobIds :
          /\ queue = {id}
          /\ submitted = [n \in {0, 1} |-> IF n = 1 THEN {id} ELSE {}]
          /\ runs = [n \in {1} |->
                       [live |-> TRUE, run_id |-> id, directory |-> 1,
                        run_number |-> 1, launch_time |-> 0,
                        timeout_hours |-> timeout_hours,
                        parameters |-> [keys |-> required_parameters, kind |-> "str"]]]
    /\ seen = [n \in {1} |-> "none"]
    /\ now = 0
    /\ last = [Op("launch", 1, "none") EXCEPT
                  !.pd = runs[1].parameters, !.job = queue]

NextHandle ==
    \/ \E n \in {1}, query \in QueryOutcomes : Status(n, query)
    \/ \E n \in {1} : Cleanup(n)
    \/ \E n \in {1}, opens \in BOOLEAN : GetResults(n, opens)
    \/ \E n \in {1}, gone \in BOOLEAN : Cancel(n, gone)
    \/ Tick
    \/ \E j \in JobIds : JobExit(j)
    \/ \E j \in JobIds : OtherJob(j)
    \/ \E n \in {1}, f \in SimFiles : SimWrites(n, f)

SpecHandle == InitHandle /\ [][NextHandle]_vars

----------------------------------------------------------------------------
(* Properties of SolpsRun.status().                                        *)

\* The handle the last operation was called on.
LastRun == runs[last.n]

\* The last operation was a status() call that returned a value.
StatusReturned == last.op = "status" /\ last.err = "none"

\* The job of the last operation's handle is listed by the scheduler.
JobListed == LastRun.run_id \in queue

ArtifactExists == "balance.nc" \in DOMAIN fs[LastRun.directory].files

\* C1: for a run whose job id is the one the scheduler acknowledged, and a
\* queue query that succeeded, status() returns complete when the job id is
\* absent from the queue and balance.nc exists, crashed when absent without
\* balance.nc, timed-out when present and the elapsed time strictly exceeds
\* timeout_hours * 3600 s, and running otherwise.
C1_StatusTable ==
    (StatusReturned /\ last.query = "ok" /\ submitted[last.n] = {LastRun.run_id})
    => last.status =
         IF ~JobListed
         THEN IF ArtifactExists THEN "complete" ELSE "crashed"
         ELSE IF (now - LastRun.launch_time) * TickSeconds > timeout_hours * 3600
              THEN "timed-out" ELSE "running"

\* C2: once a status() call has returned complete, crashed or timed-out,
\* every later status() call on the same handle returns that same value.
\* (Stated over the calls that read their own job's presence off a listing
\* the scheduler gave.)
C2_TerminalIsFinal ==
    (StatusReturned /\ last.exact /\ seen[last.n] # "none")
    => last.status = seen[last.n]

\* C3: when the queue query of status() fails, status() raises an error and
\* returns none of running, complete, crashed, timed-out.
C3_QueryFailureSurfaced ==
    (last.op = "status" /\ last.query # "ok") => last.err # "none"

----------------------------------------------------------------------------
(* Properties of Solps.launch.                                             *)

\* C4: a launch that returns a run record has put a job in the queue, and
\* the record's run_id is that job's id; a submission that queued no job
\* makes launch fail.
C4_SubmissionFailureIsFatal ==
    (last.op = "launch" /\ last.err = "none")
    => (last.job # {} /\ LastRun.run_id \in last.job)

\* C5: after every launch call, returned or failed, the working directory
\* is the one it was before the call.
C5_WorkingDirectoryRestored ==
    last.op = "launch" => cwd = last.cwd0

----------------------------------------------------------------------------
(* Properties of build_solps_case.                                         *)

\* The optional parameters of a dictionary.
OptionalOf(pd) == pd.keys \ required_parameters

\* The template files present in the reference directory.
TemplatesPresent == Range(mesa_input_files(ref))

\* The optional parameters of pd whose placeholder is in no template.
Unplaced(pd) ==
    { p \in OptionalOf(pd) :
        \A mif \in TemplatesPresent : Placeholder(p) \notin Range(ref[mif]) }

\* The last operation was a build_solps_case call on a case directory that
\* did not exist, from a reference directory that holds the base state.
FreshBuild ==
    /\ last.op = "build"
    /\ last.err # "FileExistsError"
    /\ "b2fstate" \in DOMAIN ref

\* C6: a build_solps_case or launch call whose case directory already
\* exists fails with FileExistsError and leaves every case directory as it
\* was.
C6_ExistingCaseRejected ==
    [][ (last'.op \in {"build", "launch"} /\ fs[last'.n].exists)
        => (last'.err = "FileExistsError" /\ fs' = fs) ]_vars

\* C6 witness: a build was rejected on a directory that an earlier build made.
C6_Witness ==
    /\ last.op = "build"
    /\ last.err = "FileExistsError"
    /\ fs[last.n].exists
    /\ "b2fstati" \in DOMAIN fs[last.n].files

\* A template text with the placeholder of every optional parameter of pd
\* replaced by the parameter's value.
Resolved(text, pd) ==
    [i \in DOMAIN text |->
        IF \E p \in OptionalOf(pd) : text[i] = Placeholder(p)
        THEN ValString(CHOOSE p \in OptionalOf(pd) : text[i] = Placeholder(p))
        ELSE text[i]]

\* C7: after a build that succeeded, every template that holds the
\* placeholder of a supplied optional parameter has been written out with
\* every placeholder replaced by the parameter's value and its other lines
\* unchanged, and no file of the case directory holds such a placeholder.
C7_PlaceholdersSubstituted ==
    (FreshBuild /\ last.err = "none")
    => /\ \A mif \in TemplatesPresent :
            (\E p \in OptionalOf(last.pd) : Placeholder(p) \in Range(ref[mif]))
            => \E f \in DOMAIN fs[last.n].files :
                  fs[last.n].files[f] = Resolved(ref[mif], last.pd)
       /\ \A p \in OptionalOf(last.pd) :
            \A f \in DOMAIN fs[last.n].files :
               Placeholder(p) \notin Range(fs[last.n].files[f])

\* C8: with a template present, build_solps_case fails with the
\* unused-parameter error exactly when some optional parameter has its
\* placeholder in no template, and the error lists exactly those parameters.
C8_UnusedParametersNamed ==
    (FreshBuild /\ TemplatesPresent # {})
    => /\ (last.err = "ValueError") <=> (Unplaced(last.pd) # {})
       /\ last.err = "ValueError" => last.names = Unplaced(last.pd)

\* C9: with an optional parameter given and no template in the reference
\* directory, build_solps_case fails with the no-template error, which lists
\* all the optional parameters, and the case directory holds the copied
\* reference files and nothing else.
C9_NoTemplateError ==
    (FreshBuild /\ OptionalOf(last.pd) # {} /\ TemplatesPresent = {})
    => /\ last.err = "FileNotFoundError(no .mesa)"
       /\ last.names = OptionalOf(last.pd)
       /\ fs[last.n].files = CopyReference(ref)

\* C9 witness: the no-template error was raised, listing both parameters.
C9_Witness ==
    /\ last.op = "build"
    /\ last.err = "FileNotFoundError(no .mesa)"
    /\ last.names = {"X", "Y"}
    /\ "input.dat" \in DOMAIN fs[last.n].files

----------------------------------------------------------------------------
(* Properties of SolpsRun.cleanup().                                       *)

\* C10: a cleanup() call leaves in the run directory exactly the files that
\* were there and are on the allow-list, each with the content it had, and
\* the directory itself.
C10_CleanupKeepsAllowList ==
    [][ last'.op = "cleanup"
        => LET d == runs[last'.n].directory
           IN  /\ fs'[d].exists
               /\ DOMAIN fs'[d].files = (DOMAIN fs[d].files) \cap allowed_files
               /\ \A f \in DOMAIN fs'[d].files : fs'[d].files[f] = fs[d].files[f] ]_vars

\* C10 witness: a cleanup removed files and kept the result artifact.
C10_Witness ==
    /\ last.op = "cleanup"
    /\ last.names = {"b2fstati", "run.log"}
    /\ DOMAIN fs[last.n].files = {"balance.nc", "input.dat"}

----------------------------------------------------------------------------
(* Further properties of the run handle, the launcher and the builder.     *)

\* C12: a status() call leaves the scheduler queue, every file of every run
\* directory and every field of every run record as they were, and a
\* status() call that directly follows another one on the same handle,
\* with the same answer from the queue query, ends as the first did: with
\* the same status, or the same error.
C12_StatusIsPureQuery ==
    [][ last'.op = "status"
        => /\ queue' = queue
           /\ fs' = fs
           /\ runs' = runs
           /\ now' = now
           /\ (last.op = "status" /\ last.n = last'.n /\ last.query = last'.query)
              => (last'.err = last.err /\ last'.status = last.status) ]_vars

\* C12 witness: a status() call found the job queued past the timeout, the
\* run directory still as the launch left it.
C12_Witness ==
    /\ StatusReturned
    /\ last.status = "timed-out"
    /\ JobListed
    /\ DOMAIN fs[last.n].files =
          {"b2fstati", "input.dat", "fort.1", "b2.transport.inputfile"}

\* C13: a launch submits at most one job, and only with the case built and
\* the transport input file written; a launch that fails has submitted no
\* job.
C13_NoHalfSubmittedJob ==
    last.op = "launch"
    => /\ Cardinality(last.job) <= 1
       /\ last.job # {} => "b2.transport.inputfile" \in DOMAIN fs[last.n].files
       /\ last.err # "none" => last.job = {}

\* C14: when the submission printed <prefix> 'Submitted batch job ' <id>
\* newline for the job it queued, the run record returned by launch has
\* run_id equal to <id>.
C14_JobIdParsed ==
    (last.op = "launch" /\ last.err = "none" /\ last.job # {})
    => LastRun.run_id \in last.job

\* C15: with required parameters only and no template in the reference
\* directory, build_solps_case succeeds and the case directory holds
\* exactly b2fstati with the content of b2fstate and, with its content,
\* every fixed input file that the reference directory holds.
C15_RequiredOnlyCase ==
    (FreshBuild /\ OptionalOf(last.pd) = {} /\ TemplatesPresent = {})
    => /\ last.err = "none"
       /\ fs[last.n].exists
       /\ DOMAIN fs[last.n].files =
             {"b2fstati"} \cup { f \in DOMAIN ref : f \in Range(input_files) }
       /\ fs[last.n].files["b2fstati"] = ref["b2fstate"]
       /\ \A f \in DOMAIN fs[last.n].files \ {"b2fstati"} :
             fs[last.n].files[f] = ref[f]

\* C15 witness: a build from a reference directory holding b2fstate and
\* input.dat, but not fort.1, made b2fstati and input.dat.
C15_Witness ==
    /\ last.op = "build"
    /\ last.err = "none"
    /\ last.pd.keys = required_parameters
    /\ DOMAIN ref = {"b2fstate", "input.dat"}
    /\ DOMAIN fs[last.n].files = {"b2fstati", "input.dat"}

\* C16: a launch with every required parameter and the optional parameter
\* X, whose placeholder is in the template input.dat.mesa, into a
\* simulations directory that is there and holds no run_n, with profile
\* parameters the profile generator accepts and a transport input file that
\* can be written, succeeds: the case directory holds
\* b2.transport.inputfile, and the record has that directory, run number n,
\* the parameters passed and a job id that is not empty.
C16_LaunchSucceeds ==
    ( /\ last.op = "launch"
      /\ last.pd.keys = required_parameters \cup {"X"}
      /\ last.err \notin {"FileExistsError", "FileNotFoundError(mkdir)",
                          "ValidationError", "OSError"} )
    => /\ last.err = "none"
       /\ fs[last.n].exists
       /\ "b2.transport.inputfile" \in DOMAIN fs[last.n].files
       /\ LastRun.live
       /\ LastRun.directory = last.n
       /\ LastRun.run_number = last.n
       /\ LastRun.parameters = last.pd
       /\ LastRun.run_id # << >>

\* C17: after a build that succeeded, for every template F.mesa of the
\* reference directory the case directory holds F with as many lines as
\* the template, and holds no F.mesa.
C17_TemplatesWrittenUnderBaseName ==
    (FreshBuild /\ last.err = "none")
    => \A F \in Range(input_files) :
          MesaName(F) \in DOMAIN ref
          => /\ F \in DOMAIN fs[last.n].files
             /\ Len(Lines(fs[last.n].files[F])) = Len(Lines(ref[MesaName(F)]))
             /\ MesaName(F) \notin DOMAIN fs[last.n].files

\* C18: for a run whose job id is the one the scheduler acknowledged, once
\* the job has left the queue a status() call whose queue query succeeded
\* returns complete or crashed, whatever other jobs are queued.
C18_HandlesIsolated ==
    ( /\ StatusReturned
      /\ last.query = "ok"
      /\ submitted[last.n] = {LastRun.run_id}
      /\ ~JobListed )
    => last.status \in {"complete", "crashed"}

\* C19: once a status() call has returned complete or crashed for a run,
\* every later status() call on it returns that value, whatever cleanup()
\* and get_results() calls come in between (stated, as C2, over the calls
\* that read their own job's presence off a listing the scheduler gave);
\* the balance.nc of a run seen complete stays in its directory; and a
\* cleanup() call on a run whose job has left the queue changes neither
\* what status() returns, whatever the queue query answers, nor balance.nc.
C19_CleanupKeepsOutcome ==
    /\ [] /\ (StatusReturned /\ last.exact /\ seen[last.n] \in {"complete", "crashed"})
             => last.status = seen[last.n]
          /\ \A n \in DOMAIN runs :
                seen[n] = "complete"
                => "balance.nc" \in DOMAIN fs[runs[n].directory].files
    /\ [][ (last'.op = "cleanup" /\ runs[last'.n].run_id \notin queue)
           => LET run == runs[last'.n]
                  d == run.directory
              IN  /\ \A query \in QueryOutcomes \ {"missing"} :
                        StatusOf(run, JobQueue(query), fs'[d], now)
                          = StatusOf(run, JobQueue(query), fs[d], now)
                  /\ "balance.nc" \in DOMAIN fs[d].files
                       => /\ "balance.nc" \in DOMAIN fs'[d].files
                          /\ fs'[d].files["balance.nc"] = fs[d].files["balance.nc"] ]_vars

\* C19 witness: a cleanup() removed files from the directory of a run that
\* status() had reported complete, and balance.nc is still there.
C19_Witness ==
    /\ last.op = "cleanup"
    /\ last.names = {"b2fstati", "fort.1"}
    /\ seen[last.n] = "complete"
    /\ LastRun.run_id \notin queue
    /\ "balance.nc" \in DOMAIN fs[last.n].files

====
